---- MODULE Spec2Model ----
(***************************************************************************)
(* Model of the voice assistant's concurrent core:                         *)
(*   - TimerManager (timer_manager.py): a registry of named countdown      *)
(*     timers, each an asyncio task that sleeps, announces and cleans up;  *)
(*   - OpenWakeWordProcessor (openwakeword_processor.py): the wake gate    *)
(*     with its keepalive task, mute flag and frame filtering;             *)
(*   - VoiceAssistantStateTracker.set_state (voice_assistant_state.py),    *)
(*     as far as the gate calls it.                                        *)
(*                                                                         *)
(* asyncio is modelled as cooperative scheduling: a coroutine runs         *)
(* atomically from one suspension point (an await that reaches the event   *)
(* loop) to the next.  Task.cancel() on a suspended task only requests the *)
(* cancellation; CancelledError is delivered when the task is next         *)
(* stepped.  A task cancelled before its first step never enters its body. *)
(*                                                                         *)
(* Time is the integer variable now, in tenths of a second.                *)
(***************************************************************************)
EXTENDS Integers, Sequences, FiniteSets, Bags, TLC

\* ------------------------------------------------------------------ bounds
MaxTimerTasks == 3      \* countdown tasks ever created
MaxFairTasks == 2       \* the same, in the specification with fairness
MaxTimerTicks == 1      \* clock steps of the timer specification
Names == {"pasta"}
Durations == {1, 2}     \* duration_minutes arguments
EdgeDurations == {-1, 0, 1}     \* the same, in the specification of the
                                \* durations that are not positive

\* ------------------------------------------------------------- time scale
TimerTick == 600        \* clock step of the timer specification: one minute
StartTime == 3          \* time.time() at start; >= the debounce interval

\* ------------------------------------------------------- wake gate bounds
MaxFrames == 2          \* frames the gate receives
MaxKeepalives == 2      \* keepalive tasks that exist at the same time
MaxGateTicks == 3       \* clock steps of the gate specification
MaxCalls == 3           \* set_state calls of the tracker specification
MaxCommands == 2        \* messages on the mute command topic
MaxEvents == 4          \* frames of the speech synthesis
MaxRaceTicks == 6       \* clock steps of the specification of the wake-up race
Targets == {"listening", "processing", "offline", "unknown"}
                        \* states those calls ask for
KeepaliveTicks == 2     \* keepalive_timeout (constructor argument), in ticks
AudioLens == {1, 3}     \* len(frame.audio) of the audio frames
Scores == {49, 50}      \* scores the model returns, in hundredths

NoName == ""
NameArgs == Names \cup {NoName}
TimerTasks == 1..MaxTimerTasks
TimerHorizon == StartTime + MaxTimerTicks * TimerTick

VARIABLES
    is_awake,           \* OpenWakeWordProcessor._is_awake
    is_muted,           \* OpenWakeWordProcessor._is_muted
    keepalive_task,     \* OpenWakeWordProcessor._keepalive_task: 0 is None
    ka,                 \* the keepalive tasks: slot -> [status, wake]
    audio_buffer,       \* len(OpenWakeWordProcessor._audio_buffer)
    gate,               \* where process_frame of the gate stands
    arrived,            \* the frame the gate received last: its number (the
                        \* frames received so far), its kind, the mode then
                        \* and the chunks it completed for scoring; detected
                        \* is the time of the latest score that reached the
                        \* threshold (0: none yet)
    out,                \* the frames the gate pushed downstream
    current_state,      \* VoiceAssistantStateTracker.current_state
    last_state_change,  \* VoiceAssistantStateTracker._last_state_change
    connected,          \* VoiceAssistantStateTracker._connected
    mqtt_client         \* VoiceAssistantStateTracker._mqtt_client is not None

gateVars == <<is_awake, is_muted, keepalive_task, ka, audio_buffer, gate,
              arrived, out>>
trackerVars == <<current_state, last_state_change, connected, mqtt_client>>

VARIABLES
    now,          \* time.time(), tenths of a second
    timers,       \* TimerManager.timers: name -> Timer
    ttask,        \* the countdown tasks: id -> [status, name, wake, confirmed];
                  \* confirmed records that cancel_timer returned its
                  \* "cancelled" message for the task
    nextTask,     \* id of the next countdown task to create
    queued,       \* the bag of frames the countdown tasks queued on pipeline_task
    lastResult    \* what the last TimerManager call returned

timerVars == <<timers, ttask, nextTask, queued, lastResult>>

VARIABLES
    published,    \* the messages the broker received on the state and the
                  \* attributes topic, in order, from the set_state calls of
                  \* SetStateStep and StateProcess and from the mute listener
                  \* (the gate's own calls show in current_state only)
    inflight,     \* the set_state calls suspended in their first publish
    calls,        \* set_state calls made so far
    requested,    \* the last set_state call: the state it asked for, the
                  \* state the tracker had and the time since the last change
    teardown      \* disconnect(): "none" before the call, "running" while it
                  \* is suspended, "done" after its finally clause

restVars == <<published, inflight, calls, requested, teardown>>

VARIABLES
    tracker_muted,  \* VoiceAssistantStateTracker._is_muted
    listener,       \* where _listen_for_mute_commands stands
    commands,       \* mute requests so far: the messages received on the mute
                    \* command topic and the calls of the assistant's
                    \* mute_assistant and unmute_assistant functions
    taken,          \* frames of out the speech-to-text service and the
                    \* InterruptHandler behind it have processed
    heard,          \* the frame the InterruptHandler processed last
    down,           \* the frames that reached the StateTrackingProcessor: those
                    \* the InterruptHandler pushed downstream and those of the
                    \* speech synthesis
    seen            \* frames of down the StateTrackingProcessor has processed

VARIABLES
    current_assistant_message,
                    \* StateTrackingProcessor._current_assistant_message
    passed,         \* the frames the StateTrackingProcessor pushed downstream
    history,        \* the conversation log of the state tracker
    handled         \* the last run of StateTrackingProcessor.process_frame: the
                    \* kind of the frame, _is_awake as it was read, and
                    \* whether the run raised

recVars == <<current_assistant_message, passed, history, handled>>
pipeVars == <<tracker_muted, listener, commands, taken, heard, down, seen,
              current_assistant_message, passed, history, handled>>
vars == <<now, timers, ttask, nextTask, queued, lastResult,
          is_awake, is_muted, keepalive_task, ka, audio_buffer, gate,
          arrived, out, current_state, last_state_change, connected,
          mqtt_client, published, inflight, calls, requested, teardown,
          tracker_muted, listener, commands, taken, heard, down, seen,
          current_assistant_message, passed, history, handled>>

\* ---------------------------------------------------------- TimerManager

\* f"{duration_minutes} minute timer"
DefaultName(d) == ToString(d) \o " minute timer"

AllNames == Names \cup {DefaultName(d) : d \in Durations}
EdgeNames == Names \cup {DefaultName(d) : d \in EdgeDurations}

\* name = name if name else default
EffectiveName(d, n) == IF n = NoName THEN DefaultName(d) ELSE n

\* dataclass Timer
Timer(n, secs, start, task) ==
    [name |-> n, duration_seconds |-> secs, start_time |-> start, task |-> task]

NoTask == [status |-> "none", name |-> NoName, wake |-> 0, confirmed |-> FALSE]

\* del self.timers[name]
DictDel(d, k) == [x \in (DOMAIN d) \ {k} |-> d[x]]

\* self.timers[name] = v
DictPut(d, k, v) == [x \in (DOMAIN d) \cup {k} |-> IF x = k THEN v ELSE d[x]]

\* a live countdown task: created and neither finished nor cancelled
Live(t) == ttask[t].status \in {"sleeping", "announced"}

\* a task that has ended: its arguments are gone with its frame
Finished(rec, how) == [rec EXCEPT !.status = how, !.name = NoName, !.wake = 0]

\* Task.cancel(): a finished task ignores it; a suspended task gets
\* CancelledError at its next step.  (A task cancelled before its first step
\* ends without entering its body; as the canceller has already removed the
\* registry entry, that is the handler below running at once as a no-op.)
TaskCancel(rec) ==
    IF rec.status \in {"sleeping", "announced"}
    THEN [rec EXCEPT !.status = "cancel_pending", !.wake = 0]
    ELSE rec

TimerInit ==
    /\ timers = << >>
    /\ ttask = [t \in TimerTasks |-> NoTask]
    /\ nextTask = 1
    /\ queued = EmptyBag
    /\ lastResult = "none"

\* asyncio.create_task(self._timer_countdown(name, duration_seconds)): the task
\* suspends in asyncio.sleep(duration_seconds)
NewCountdown(name, secs) ==
    [status |-> "sleeping", name |-> name, wake |-> now + secs * 10,
     confirmed |-> FALSE]

\* set_timer without the check of lines 55-56
SetTimerNoCheck(max, d, n) ==
    LET name == EffectiveName(d, n) IN
    /\ nextTask <= max
    /\ ttask' = [ttask EXCEPT ![nextTask] = NewCountdown(name, d * 60)]
    /\ timers' = DictPut(timers, name, Timer(name, d * 60, now, nextTask))
    /\ nextTask' = nextTask + 1
    /\ lastResult' = "set"
    /\ UNCHANGED <<now, queued, gateVars, trackerVars, restVars, pipeVars>>

\* TimerManager.set_timer, while fewer than max tasks have been created
SetTimerUpTo(max, d, n) ==
    LET name == EffectiveName(d, n) IN
    /\ nextTask <= max
    /\ IF name \in DOMAIN timers
       THEN /\ lastResult' = "already_exists"
            /\ UNCHANGED <<now, timers, ttask, nextTask, queued, gateVars, trackerVars, restVars, pipeVars>>
       ELSE /\ ttask' = [ttask EXCEPT ![nextTask] = NewCountdown(name, d * 60)]
            /\ timers' = DictPut(timers, name, Timer(name, d * 60, now, nextTask))
            /\ nextTask' = nextTask + 1
            /\ lastResult' = "set"
            /\ UNCHANGED <<now, queued, gateVars, trackerVars, restVars, pipeVars>>

SetTimer(d, n) == SetTimerUpTo(MaxTimerTasks, d, n)

\* the frame queued by an expiring countdown: TTSTextFrame(text=announcement)
Announcement(t) == [text |-> ttask[t].name, task |-> t]

\* _timer_countdown: the sleep is over, the announcement is queued and the task
\* is suspended in the await of queue_frames
Expire(t) ==
    /\ ttask[t].status = "sleeping"
    /\ now >= ttask[t].wake
    /\ queued' = queued (+) SetToBag({Announcement(t)})
    /\ ttask' = [ttask EXCEPT ![t].status = "announced", ![t].wake = 0]
    /\ UNCHANGED <<now, timers, nextTask, lastResult, gateVars, trackerVars, restVars, pipeVars>>

\* _timer_countdown ending after the announcement without lines 97-99
CleanupKeepsEntry(t) ==
    /\ ttask[t].status = "announced"
    /\ ttask' = [ttask EXCEPT ![t] = Finished(@, "done")]
    /\ UNCHANGED <<now, timers, nextTask, queued, lastResult, gateVars, trackerVars, restVars, pipeVars>>

\* _timer_countdown: clean up after the announcement, under the lock
Cleanup(t) ==
    /\ ttask[t].status = "announced"
    /\ timers' = IF ttask[t].name \in DOMAIN timers
                 THEN DictDel(timers, ttask[t].name) ELSE timers
    /\ ttask' = [ttask EXCEPT ![t] = Finished(@, "done")]
    /\ UNCHANGED <<now, nextTask, queued, lastResult, gateVars, trackerVars, restVars, pipeVars>>

\* _timer_countdown: except asyncio.CancelledError
HandleCancelled(t) ==
    /\ ttask[t].status = "cancel_pending"
    /\ timers' = IF ttask[t].name \in DOMAIN timers
                 THEN DictDel(timers, ttask[t].name) ELSE timers
    /\ ttask' = [ttask EXCEPT ![t] = Finished(@, "cancelled")]
    /\ UNCHANGED <<now, nextTask, queued, lastResult, gateVars, trackerVars, restVars, pipeVars>>

\* cancel_timer without the check of lines 118-119: self.timers[name] raises
CancelTimerNoCheck(n) ==
    IF n \notin DOMAIN timers
    THEN /\ lastResult' = "error"
         /\ UNCHANGED <<now, timers, ttask, nextTask, queued, gateVars, trackerVars, restVars, pipeVars>>
    ELSE /\ ttask' = [ttask EXCEPT ![timers[n].task] =
                            [TaskCancel(@) EXCEPT !.confirmed = TRUE]]
         /\ timers' = DictDel(timers, n)
         /\ lastResult' = "cancelled"
         /\ UNCHANGED <<now, nextTask, queued, gateVars, trackerVars, restVars, pipeVars>>

\* TimerManager.cancel_timer
CancelTimer(n) ==
    IF n \notin DOMAIN timers
    THEN /\ lastResult' = "not_found"
         /\ UNCHANGED <<now, timers, ttask, nextTask, queued, gateVars, trackerVars, restVars, pipeVars>>
    ELSE /\ ttask' = [ttask EXCEPT ![timers[n].task] =
                            [TaskCancel(@) EXCEPT !.confirmed = TRUE]]
         /\ timers' = DictDel(timers, n)
         /\ lastResult' = "cancelled"
         /\ UNCHANGED <<now, nextTask, queued, gateVars, trackerVars, restVars, pipeVars>>

\* TimerManager.cancel_all_timers
CancelAllTimers ==
    /\ ttask' = [t \in TimerTasks |->
                    IF \E n \in DOMAIN timers : timers[n].task = t
                    THEN TaskCancel(ttask[t]) ELSE ttask[t]]
    /\ timers' = << >>
    /\ lastResult' = "none"
    /\ UNCHANGED <<now, nextTask, queued, gateVars, trackerVars, restVars, pipeVars>>

\* remaining = timer.duration_seconds - (current_time - timer.start_time),
\* in tenths of a second
Remaining(tm) == tm.duration_seconds * 10 - (now - tm.start_time)

\* f"{remaining / 60:.1f}": tenths of a minute, rounded half to even
MinutesTenths(rem) ==
    LET q == rem \div 60
        r == rem % 60
    IN IF r > 30 \/ (r = 30 /\ q % 2 = 1) THEN q + 1 ELSE q

\* f"{x:.1f}" for x given in tenths
OneDecimal(q) == ToString(q \div 10) \o "." \o ToString(q % 10)

\* f"'{timer.name}': {minutes_remaining:.1f} minutes remaining"
ListEntry(n) ==
    "'" \o n \o "': " \o OneDecimal(MinutesTenths(Remaining(timers[n])))
        \o " minutes remaining"

\* ", ".join(timer_list) over the timers of names, in the order of
\* self.timers.values(): the order of insertion, which is that of the tasks
RECURSIVE JoinEntries(_)
JoinEntries(names) ==
    IF names = {} THEN ""
    ELSE LET first == CHOOSE n \in names :
                         \A m \in names : timers[n].task <= timers[m].task
         IN IF names = {first} THEN ListEntry(first)
            ELSE ListEntry(first) \o ", " \o JoinEntries(names \ {first})

\* list_timers without the test of line 145
ListTimersNoFilter ==
    /\ lastResult' = IF DOMAIN timers = {} THEN "No active timers."
                     ELSE "Active timers: " \o JoinEntries(DOMAIN timers)
    /\ UNCHANGED <<now, timers, ttask, nextTask, queued, gateVars, trackerVars, restVars, pipeVars>>

\* TimerManager.list_timers
ListTimers ==
    LET listed == {n \in DOMAIN timers : Remaining(timers[n]) > 0} IN
    /\ lastResult' = IF listed = {} THEN "No active timers."
                     ELSE "Active timers: " \o JoinEntries(listed)
    /\ UNCHANGED <<now, timers, ttask, nextTask, queued, gateVars, trackerVars, restVars, pipeVars>>

\* get_timer_status without the test of line 174
GetTimerStatusNoLapse(n) ==
    /\ lastResult' = IF n \notin DOMAIN timers THEN "not_found"
                     ELSE "Timer '" \o n \o "' has "
                             \o OneDecimal(MinutesTenths(Remaining(timers[n])))
                             \o " minutes remaining."
    /\ UNCHANGED <<now, timers, ttask, nextTask, queued, gateVars, trackerVars, restVars, pipeVars>>

\* TimerManager.get_timer_status; a name that is not in the registry gets the
\* message cancel_timer returns for it
GetTimerStatus(n) ==
    /\ lastResult' = IF n \notin DOMAIN timers THEN "not_found"
                     ELSE IF Remaining(timers[n]) > 0
                     THEN "Timer '" \o n \o "' has "
                             \o OneDecimal(MinutesTenths(Remaining(timers[n])))
                             \o " minutes remaining."
                     ELSE "Timer '" \o n \o "' should have expired by now."
    /\ UNCHANGED <<now, timers, ttask, nextTask, queued, gateVars, trackerVars, restVars, pipeVars>>

\* time passes, half a minute at a time
TimerClock ==
    /\ now + TimerTick <= TimerHorizon
    /\ now' = now + TimerTick
    /\ UNCHANGED <<timerVars, pipeVars, gateVars, trackerVars, restVars, pipeVars>>

\* ------------------------------------------- VoiceAssistantStateTracker

DebounceTicks == 3      \* _debounce_interval = 0.3 s

States == {"standby", "listening", "processing", "speaking", "idle", "muted",
           "offline"}

TrackerInit ==
    /\ current_state = "offline"
    /\ last_state_change = 0
    /\ connected = FALSE
    /\ mqtt_client = FALSE
    /\ tracker_muted = FALSE
    /\ listener = [pc |-> "idle", muted |-> FALSE]
    /\ commands = 0
    /\ published = << >>
    /\ inflight = EmptyBag
    /\ calls = 0
    /\ requested = [state |-> "none", from |-> "offline", elapsed |-> 0]
    /\ teardown = "none"

\* set_state without the check of lines 209-211
SetStateNoSameCheck(cur, last, state) ==
    IF state \notin States
    THEN [cur |-> cur, last |-> last, publishes |-> FALSE]
    ELSE IF now - last < DebounceTicks /\ state # "offline"
    THEN [cur |-> cur, last |-> last, publishes |-> FALSE]
    ELSE [cur |-> state, last |-> now, publishes |-> connected /\ mqtt_client]

\* set_state debouncing the transition to offline like any other
SetStateOfflineDebounced(cur, last, state) ==
    IF state \notin States \/ state = cur
    THEN [cur |-> cur, last |-> last, publishes |-> FALSE]
    ELSE IF now - last < DebounceTicks
    THEN [cur |-> cur, last |-> last, publishes |-> FALSE]
    ELSE [cur |-> state, last |-> now, publishes |-> connected /\ mqtt_client]

\* set_state without the debounce of lines 213-220
SetStateNoDebounce(cur, last, state) ==
    IF state \notin States \/ state = cur
    THEN [cur |-> cur, last |-> last, publishes |-> FALSE]
    ELSE [cur |-> state, last |-> now, publishes |-> connected /\ mqtt_client]

\* VoiceAssistantStateTracker.set_state up to its first publish: the tracker
\* fields afterwards, and whether the caller goes on to await the publishes
SetState(cur, last, state) ==
    IF state \notin States \/ state = cur
    THEN [cur |-> cur, last |-> last, publishes |-> FALSE]
    ELSE IF now - last < DebounceTicks /\ state # "offline"
    THEN [cur |-> cur, last |-> last, publishes |-> FALSE]
    ELSE [cur |-> state, last |-> now, publishes |-> connected /\ mqtt_client]

\* VoiceAssistantStateTracker.connect, when the broker is reached
Connect ==
    /\ ~mqtt_client
    /\ mqtt_client' = TRUE
    /\ connected' = TRUE
    /\ UNCHANGED <<now, restVars, pipeVars, timerVars, gateVars, current_state,
                   last_state_change>>

\* VoiceAssistantStateTracker.connect, when the broker is not reached
ConnectFails ==
    /\ ~mqtt_client
    /\ mqtt_client' = TRUE
    /\ connected' = FALSE
    /\ UNCHANGED <<now, restVars, pipeVars, timerVars, gateVars, current_state,
                   last_state_change>>

\* the messages of set_state on the state topic and on the attributes topic
StateMsg(state) == [topic |-> "state", state |-> state]
AttrMsg(state) == [topic |-> "attributes", state |-> state]

\* a set_state call suspended in its first publish, and who made it
Call(state, by) == [state |-> state, by |-> by]
Callers == {"disconnect", "other"}

\* set_state publishing before it updates current_state, so that a publish
\* that raises leaves the state as it was
SetStateStepPublishFirst(state, by, ok) ==
    LET r == SetState(current_state, last_state_change, state) IN
    /\ calls < MaxCalls
    /\ calls' = calls + 1
    /\ requested' = [state |-> state, from |-> current_state,
                     elapsed |-> now - last_state_change]
    /\ r.publishes \/ ok
    /\ IF r.publishes /\ ~ok
       THEN UNCHANGED <<current_state, last_state_change, published, inflight>>
       ELSE /\ current_state' = r.cur
            /\ last_state_change' = r.last
            /\ IF r.publishes
               THEN /\ published' = Append(published, StateMsg(state))
                    /\ inflight' = inflight (+) SetToBag({Call(state, by)})
               ELSE UNCHANGED <<published, inflight>>
    /\ UNCHANGED <<now, timerVars, pipeVars, gateVars, connected, mqtt_client>>

\* set_state, lines 205-236: the checks, the update and the first publish, in
\* which the caller suspends; ok is FALSE when that publish raises
SetStateStep(state, by, ok) ==
    LET r == SetState(current_state, last_state_change, state) IN
    /\ calls < MaxCalls
    /\ calls' = calls + 1
    /\ requested' = [state |-> state, from |-> current_state,
                     elapsed |-> now - last_state_change]
    /\ r.publishes \/ ok
    /\ current_state' = r.cur
    /\ last_state_change' = r.last
    /\ IF r.publishes /\ ok
       THEN /\ published' = Append(published, StateMsg(state))
            /\ inflight' = inflight (+) SetToBag({Call(state, by)})
       ELSE UNCHANGED <<published, inflight>>
    /\ UNCHANGED <<now, timerVars, pipeVars, gateVars, connected, mqtt_client>>

\* set_state called by any coroutine but disconnect
SetStateCall(state, ok) ==
    /\ SetStateStep(state, "other", ok)
    /\ UNCHANGED teardown

\* set_state, lines 238-252: the caller resumes and publishes the attributes
PublishAttributes(call, ok) ==
    /\ BagIn(call, inflight)
    /\ inflight' = inflight (-) SetToBag({call})
    /\ published' = IF ok THEN Append(published, AttrMsg(call.state))
                    ELSE published
    /\ UNCHANGED <<now, timerVars, pipeVars, gateVars, trackerVars, calls, requested,
                   teardown>>

\* VoiceAssistantStateTracker.disconnect up to its first suspension, in
\* set_state or in __aexit__
Disconnect(ok) ==
    /\ mqtt_client
    /\ teardown = "none"
    /\ teardown' = "running"
    /\ SetStateStep("offline", "disconnect", ok)

\* disconnect: __aexit__ returns or raises; finally: self._connected = False
DisconnectFinish ==
    /\ teardown = "running"
    /\ \A call \in BagToSet(inflight) : call.by # "disconnect"
    /\ teardown' = "done"
    /\ connected' = FALSE
    /\ UNCHANGED <<now, timerVars, pipeVars, gateVars, current_state, last_state_change,
                   mqtt_client, published, inflight, calls, requested>>

\* ------------------------------------------------ OpenWakeWordProcessor

Threshold == 50             \* threshold = 0.5, in hundredths
chunk_size_samples == 1     \* constructor argument; one sample is two bytes
chunk_size_bytes == chunk_size_samples * 2

KeepaliveSlots == 1..MaxKeepalives
FrameKinds == {"audio", "transcription", "user_started", "user_stopped", "control"}
UserInputKinds == {"transcription", "user_started", "user_stopped"}
GatedKinds == {"audio"} \cup UserInputKinds
AudioFormats == {[sample_rate |-> 16000, num_channels |-> 1],
                 [sample_rate |-> 8000, num_channels |-> 1],
                 [sample_rate |-> 16000, num_channels |-> 2]}
Predictions == {[raises |-> FALSE, score |-> s] : s \in Scores}
                  \cup {[raises |-> TRUE, score |-> 0]}

NoFrame == [id |-> 0, kind |-> "none"]
Idle == [pc |-> "idle", frame |-> NoFrame, pending |-> << >>]
NoKeepalive == [status |-> "none", wake |-> 0]

\* the activation state: Muted, Awake or Asleep
Mode == IF is_muted THEN "muted" ELSE IF is_awake THEN "awake" ELSE "asleep"

GateInit ==
    /\ is_awake = FALSE
    /\ is_muted = FALSE
    /\ keepalive_task = 0
    /\ ka = [k \in KeepaliveSlots |-> NoKeepalive]
    /\ audio_buffer = 0
    /\ gate = Idle
    /\ arrived = [id |-> 0, kind |-> "none", mode |-> "asleep", scored |-> 0,
                 detected |-> 0]
    /\ out = << >>
    /\ taken = 0
    /\ heard = [id |-> 0, kind |-> "none", text |-> << >>]
    /\ down = << >>
    /\ seen = 0
    /\ current_assistant_message = << >>
    /\ passed = << >>
    /\ history = << >>
    /\ handled = [kind |-> "none", awake |-> FALSE, raised |-> FALSE]

\* the fields _wake_up reads and writes
GateState ==
    [is_awake |-> is_awake, keepalive_task |-> keepalive_task, ka |-> ka,
     cur |-> current_state, last |-> last_state_change, overflow |-> FALSE,
     detects |-> FALSE]

\* self._keepalive_task.cancel(), guarded by "if self._keepalive_task"
CancelKeepalive(tasks, k) ==
    IF k # 0 /\ tasks[k].status \in {"sleeping", "publishing"}
    THEN [tasks EXCEPT ![k] = [status |-> "cancel_pending", wake |-> 0]]
    ELSE tasks

\* _wake_up, lines 187-193: set the flag and notify the tracker
WakeUpEnter(g) ==
    IF g.is_awake
    THEN [g |-> g, suspended |-> FALSE]
    ELSE LET r == SetState(g.cur, g.last, "listening") IN
         [g |-> [g EXCEPT !.is_awake = TRUE, !.cur = r.cur, !.last = r.last],
          suspended |-> r.publishes]

\* _wake_up creating the keepalive without cancelling the previous one
WakeUpArmNoCancel(g) ==
    LET free == {k \in KeepaliveSlots : g.ka[k].status = "none"}
    IN IF free = {}
       THEN [g EXCEPT !.overflow = TRUE]
       ELSE LET k == CHOOSE x \in free : \A y \in free : x <= y IN
            [g EXCEPT !.ka = [g.ka EXCEPT ![k] =
                                [status |-> "sleeping", wake |-> now + KeepaliveTicks]],
                      !.keepalive_task = k]

\* _wake_up, lines 195-199: cancel the keepalive and create a new one
WakeUpArm(g) ==
    LET tasks == CancelKeepalive(g.ka, g.keepalive_task)
        free == {k \in KeepaliveSlots : tasks[k].status = "none"}
    IN IF free = {}
       THEN [g EXCEPT !.overflow = TRUE]
       ELSE LET k == CHOOSE x \in free : \A y \in free : x <= y IN
            [g EXCEPT !.ka = [tasks EXCEPT ![k] =
                                [status |-> "sleeping", wake |-> now + KeepaliveTicks]],
                      !.keepalive_task = k]

\* _process_audio waking up on every score, whatever the threshold
RECURSIVE RunChunksNoThreshold(_, _)
RunChunksNoThreshold(g, preds) ==
    IF preds = << >>
    THEN [g |-> g, pending |-> << >>, suspended |-> FALSE]
    ELSE LET p == Head(preds) IN
         IF p.raises
         THEN RunChunksNoThreshold(g, Tail(preds))
         ELSE LET e == WakeUpEnter([g EXCEPT !.detects = TRUE]) IN
              IF e.suspended
              THEN [g |-> e.g, pending |-> Tail(preds), suspended |-> TRUE]
              ELSE RunChunksNoThreshold(WakeUpArm(e.g), Tail(preds))

\* _process_audio, the while loop over the complete chunks, up to the first
\* suspension of _wake_up; preds are the results of self._model.predict
RECURSIVE RunChunks(_, _)
RunChunks(g, preds) ==
    IF preds = << >>
    THEN [g |-> g, pending |-> << >>, suspended |-> FALSE]
    ELSE LET p == Head(preds) IN
         IF p.raises \/ ~(p.score >= Threshold)
         THEN RunChunks(g, Tail(preds))
         ELSE LET e == WakeUpEnter([g EXCEPT !.detects = TRUE]) IN
              IF e.suspended
              THEN [g |-> e.g, pending |-> Tail(preds), suspended |-> TRUE]
              ELSE RunChunks(WakeUpArm(e.g), Tail(preds))

\* process_frame without the return of line 121: the audio frame falls through
\* to the push of line 132
AfterAudioFallsThrough(r, frame, buffered) ==
    /\ ~r.g.overflow
    /\ is_awake' = r.g.is_awake
    /\ keepalive_task' = r.g.keepalive_task
    /\ ka' = r.g.ka
    /\ current_state' = r.g.cur
    /\ last_state_change' = r.g.last
    /\ audio_buffer' = buffered + Len(r.pending) * chunk_size_bytes
    /\ IF r.suspended
       THEN /\ gate' = [pc |-> "wake_up", frame |-> frame, pending |-> r.pending]
            /\ out' = out
       ELSE /\ gate' = Idle
            /\ out' = IF r.g.is_awake THEN Append(Append(out, frame), frame)
                      ELSE Append(out, frame)

\* process_frame, lines 117-121, after _process_audio has returned, or the
\* suspension of process_frame inside _wake_up
AfterAudio(r, frame, buffered) ==
    /\ ~r.g.overflow
    /\ is_awake' = r.g.is_awake
    /\ keepalive_task' = r.g.keepalive_task
    /\ ka' = r.g.ka
    /\ current_state' = r.g.cur
    /\ last_state_change' = r.g.last
    /\ audio_buffer' = buffered + Len(r.pending) * chunk_size_bytes
    /\ IF r.suspended
       THEN /\ gate' = [pc |-> "wake_up", frame |-> frame, pending |-> r.pending]
            /\ out' = out
       ELSE /\ gate' = Idle
            /\ out' = IF r.g.is_awake THEN Append(out, frame) ELSE out

\* process_frame with a _process_audio that does not verify the audio format
\* (lines 138-150)
ProcessAudioFrameAnyFormat(fmt, len, preds) ==
    LET frame == [id |-> arrived.id + 1, kind |-> "audio"]
        total == audio_buffer + len
    IN
    /\ gate.pc = "idle"
    /\ arrived.id < MaxFrames
    /\ arrived' = [id |-> frame.id, kind |-> "audio", mode |-> Mode,
                    scored |-> Len(preds),
                    detected |-> IF RunChunks(GateState, preds).g.detects
                                 THEN now ELSE arrived.detected]
    /\ IF is_muted
       THEN /\ preds = << >>
            /\ UNCHANGED <<is_awake, keepalive_task, ka, audio_buffer, gate, out,
                           current_state, last_state_change>>
       ELSE /\ Len(preds) = total \div chunk_size_bytes
            /\ AfterAudio(RunChunks(GateState, preds), frame,
                          total % chunk_size_bytes)
    /\ UNCHANGED <<now, restVars, pipeVars, timerVars, is_muted, connected, mqtt_client>>

\* process_frame for an InputAudioRawFrame
ProcessAudioFrame(fmt, len, preds) ==
    LET frame == [id |-> arrived.id + 1, kind |-> "audio"]
        wellFormed == fmt.sample_rate = 16000 /\ fmt.num_channels = 1
        total == audio_buffer + len
    IN
    /\ gate.pc = "idle"
    /\ arrived.id < MaxFrames
    /\ arrived' = [id |-> frame.id, kind |-> "audio", mode |-> Mode,
                    scored |-> Len(preds),
                    detected |-> IF RunChunks(GateState, preds).g.detects
                                 THEN now ELSE arrived.detected]
    /\ IF is_muted
       THEN /\ preds = << >>
            /\ UNCHANGED <<is_awake, keepalive_task, ka, audio_buffer, gate, out,
                           current_state, last_state_change>>
       ELSE IF ~wellFormed
       THEN /\ preds = << >>
            /\ out' = IF is_awake THEN Append(out, frame) ELSE out
            /\ UNCHANGED <<is_awake, keepalive_task, ka, audio_buffer, gate,
                           current_state, last_state_change>>
       ELSE /\ Len(preds) = total \div chunk_size_bytes
            /\ AfterAudio(RunChunks(GateState, preds), frame,
                          total % chunk_size_bytes)
    /\ UNCHANGED <<now, restVars, pipeVars, timerVars, is_muted, connected, mqtt_client>>

\* process_frame resumes in _wake_up when on_listening returns
ResumeWakeUp ==
    /\ gate.pc = "wake_up"
    /\ AfterAudio(RunChunks(WakeUpArm(GateState), gate.pending), gate.frame,
                  audio_buffer - Len(gate.pending) * chunk_size_bytes)
    /\ arrived' = [arrived EXCEPT !.detected =
                       IF RunChunks(WakeUpArm(GateState), gate.pending).g.detects
                       THEN now ELSE @]
    /\ UNCHANGED <<now, restVars, pipeVars, timerVars, is_muted, connected, mqtt_client>>

\* process_frame without the check of lines 124-129
ProcessOtherFrameNoSleepCheck(kind) ==
    LET frame == [id |-> arrived.id + 1, kind |-> kind] IN
    /\ gate.pc = "idle"
    /\ arrived.id < MaxFrames
    /\ arrived' = [id |-> frame.id, kind |-> kind, mode |-> Mode, scored |-> 0,
                    detected |-> arrived.detected]
    /\ out' = IF is_muted /\ kind \in GatedKinds THEN out ELSE Append(out, frame)
    /\ UNCHANGED <<now, restVars, pipeVars, timerVars, trackerVars, is_awake, is_muted,
                   keepalive_task, ka, audio_buffer, gate>>

\* process_frame dropping every frame when muted
ProcessOtherFrameMutedDropsAll(kind) ==
    LET frame == [id |-> arrived.id + 1, kind |-> kind] IN
    /\ gate.pc = "idle"
    /\ arrived.id < MaxFrames
    /\ arrived' = [id |-> frame.id, kind |-> kind, mode |-> Mode, scored |-> 0,
                    detected |-> arrived.detected]
    /\ out' = IF is_muted THEN out
              ELSE IF ~is_awake /\ kind \in UserInputKinds THEN out
              ELSE Append(out, frame)
    /\ UNCHANGED <<now, restVars, pipeVars, timerVars, trackerVars, is_awake, is_muted,
                   keepalive_task, ka, audio_buffer, gate>>

\* process_frame for every frame that is not an InputAudioRawFrame
ProcessOtherFrame(kind) ==
    LET frame == [id |-> arrived.id + 1, kind |-> kind] IN
    /\ gate.pc = "idle"
    /\ arrived.id < MaxFrames
    /\ arrived' = [id |-> frame.id, kind |-> kind, mode |-> Mode, scored |-> 0,
                    detected |-> arrived.detected]
    /\ out' = IF is_muted /\ kind \in GatedKinds THEN out
              ELSE IF ~is_awake /\ kind \in UserInputKinds THEN out
              ELSE Append(out, frame)
    /\ UNCHANGED <<now, restVars, pipeVars, timerVars, trackerVars, is_awake, is_muted,
                   keepalive_task, ka, audio_buffer, gate>>

\* set_muted cancelling the keepalive without line 75
SetMutedStepStaysAwake(muted) ==
    LET r == SetState(current_state, last_state_change,
                      IF muted THEN "muted" ELSE "standby") IN
    /\ is_muted' = muted
    /\ IF muted
       THEN /\ is_awake' = is_awake
            /\ ka' = CancelKeepalive(ka, keepalive_task)
       ELSE UNCHANGED <<is_awake, ka>>
    /\ current_state' = r.cur
    /\ last_state_change' = r.last
    /\ UNCHANGED <<now, restVars, timerVars, keepalive_task, audio_buffer, gate,
                   arrived, out, connected, mqtt_client>>

\* OpenWakeWordProcessor.set_muted, whoever calls it
SetMutedStep(muted) ==
    LET r == SetState(current_state, last_state_change,
                      IF muted THEN "muted" ELSE "standby") IN
    /\ is_muted' = muted
    /\ IF muted
       THEN /\ is_awake' = FALSE
            /\ ka' = CancelKeepalive(ka, keepalive_task)
       ELSE UNCHANGED <<is_awake, ka>>
    /\ current_state' = r.cur
    /\ last_state_change' = r.last
    /\ UNCHANGED <<now, restVars, timerVars, keepalive_task, audio_buffer, gate,
                   arrived, out, connected, mqtt_client>>

\* OpenWakeWordProcessor.set_muted called on its own
SetMuted(muted) ==
    /\ SetMutedStep(muted)
    /\ UNCHANGED pipeVars

\* OpenWakeWordProcessor.go_to_sleep, whoever calls it
GoToSleepStep ==
    LET r == SetState(current_state, last_state_change, "standby") IN
    /\ IF is_awake
       THEN /\ is_awake' = FALSE
            /\ ka' = CancelKeepalive(ka, keepalive_task)
            /\ keepalive_task' = 0
            /\ current_state' = r.cur
            /\ last_state_change' = r.last
       ELSE UNCHANGED <<is_awake, ka, keepalive_task, current_state,
                        last_state_change>>
    /\ UNCHANGED <<now, restVars, timerVars, is_muted, audio_buffer, gate, arrived,
                   out, connected, mqtt_client>>

\* OpenWakeWordProcessor.go_to_sleep called on its own
GoToSleep ==
    /\ GoToSleepStep
    /\ UNCHANGED pipeVars

\* _keepalive without line 205
KeepaliveExpireStaysAwake(k) ==
    LET r == SetState(current_state, last_state_change, "standby") IN
    /\ ka[k].status = "sleeping"
    /\ now >= ka[k].wake
    /\ current_state' = r.cur
    /\ last_state_change' = r.last
    /\ ka' = [ka EXCEPT ![k] = IF r.publishes
                               THEN [status |-> "publishing", wake |-> 0]
                               ELSE NoKeepalive]
    /\ UNCHANGED <<now, restVars, pipeVars, timerVars, is_awake, is_muted, keepalive_task,
                   audio_buffer, gate, arrived, out, connected, mqtt_client>>

\* _keepalive: the sleep is over; the gate falls asleep and the tracker is told
KeepaliveExpire(k) ==
    LET r == SetState(current_state, last_state_change, "standby") IN
    /\ ka[k].status = "sleeping"
    /\ now >= ka[k].wake
    /\ is_awake' = FALSE
    /\ current_state' = r.cur
    /\ last_state_change' = r.last
    /\ ka' = [ka EXCEPT ![k] = IF r.publishes
                               THEN [status |-> "publishing", wake |-> 0]
                               ELSE NoKeepalive]
    /\ UNCHANGED <<now, restVars, pipeVars, timerVars, is_muted, keepalive_task, audio_buffer, gate,
                   arrived, out, connected, mqtt_client>>

\* _keepalive: on_standby returns and the task ends
KeepaliveReturn(k) ==
    /\ ka[k].status = "publishing"
    /\ ka' = [ka EXCEPT ![k] = NoKeepalive]
    /\ UNCHANGED <<now, restVars, pipeVars, timerVars, trackerVars, is_awake, is_muted,
                   keepalive_task, audio_buffer, gate, arrived, out>>

\* _keepalive: except asyncio.CancelledError: pass
KeepaliveCancelled(k) ==
    /\ ka[k].status = "cancel_pending"
    /\ ka' = [ka EXCEPT ![k] = NoKeepalive]
    /\ UNCHANGED <<now, restVars, pipeVars, timerVars, trackerVars, is_awake, is_muted,
                   keepalive_task, audio_buffer, gate, arrived, out>>

\* ------------------------------------------------------ InterruptHandler

\* INTERRUPT_PHRASES, each pattern without its two \b, as its characters
INTERRUPT_PHRASES ==
    << <<"s","h","u","t"," ","u","p">>,
       <<"s","t","o","p"," ","t","a","l","k","i","n","g">>,
       <<"b","e"," ","q","u","i","e","t">>,
       <<"q","u","i","e","t">>,
       <<"c","a","n","c","e","l">>,
       <<"n","e","v","e","r"," ","m","i","n","d">>,
       <<"n","e","v","e","r","m","i","n","d">> >>

\* the characters \w matches, of those the texts of the model are made of
WordChars == {"a","b","c","d","e","g","h","i","k","l","m","n","o","p","q","r",
              "s","t","u","v","B","Q","S","_"}

\* str.lower(), on those characters
LowerChar(c) == CASE c = "B" -> "b" [] c = "Q" -> "q" [] c = "S" -> "s"
                  [] OTHER -> c
Lower(text) == [i \in DOMAIN text |-> LowerChar(text[i])]

\* str.strip(): the text without its leading and trailing blanks
RECURSIVE LStrip(_)
LStrip(text) ==
    IF text # << >> /\ Head(text) = " " THEN LStrip(Tail(text)) ELSE text
RECURSIVE RStrip(_)
RStrip(text) ==
    IF text # << >> /\ text[Len(text)] = " "
    THEN RStrip(SubSeq(text, 1, Len(text) - 1)) ELSE text
Strip(text) == RStrip(LStrip(text))

\* \b at position i of text (between text[i-1] and text[i])
Boundary(text, i) ==
    LET before == i > 1 /\ text[i - 1] \in WordChars
        after == i <= Len(text) /\ text[i] \in WordChars
    IN before # after

\* re.search(r"\b<phrase>\b", text)
Search(phrase, text) ==
    \E i \in 1..(Len(text) - Len(phrase) + 1) :
        /\ SubSeq(text, i, i + Len(phrase) - 1) = phrase
        /\ Boundary(text, i)
        /\ Boundary(text, i + Len(phrase))

\* the loop of lines 57-68 without the return of line 68
RECURSIVE ScanPhrasesNoReturn(_, _)
ScanPhrasesNoReturn(text, i) ==
    IF i > Len(INTERRUPT_PHRASES)
    THEN [matched |-> FALSE, cancels |-> 0]
    ELSE LET rest == ScanPhrasesNoReturn(text, i + 1) IN
         IF Search(INTERRUPT_PHRASES[i], text)
         THEN [matched |-> TRUE, cancels |-> rest.cancels + 1]
         ELSE rest

\* the loop of lines 57-68 with patterns that lack the two \b
RECURSIVE ScanPhrasesNoBoundary(_, _)
ScanPhrasesNoBoundary(text, i) ==
    IF i > Len(INTERRUPT_PHRASES)
    THEN [matched |-> FALSE, cancels |-> 0]
    ELSE IF \E j \in 1..(Len(text) - Len(INTERRUPT_PHRASES[i]) + 1) :
               SubSeq(text, j, j + Len(INTERRUPT_PHRASES[i]) - 1)
                   = INTERRUPT_PHRASES[i]
    THEN [matched |-> TRUE, cancels |-> 1]
    ELSE ScanPhrasesNoBoundary(text, i + 1)

\* the loop of lines 57-68 from pattern i on: whether a pattern matched and
\* the CancelFrames pushed
RECURSIVE ScanPhrases(_, _)
ScanPhrases(text, i) ==
    IF i > Len(INTERRUPT_PHRASES)
    THEN [matched |-> FALSE, cancels |-> 0]
    ELSE IF Search(INTERRUPT_PHRASES[i], text)
    THEN [matched |-> TRUE, cancels |-> 1]
    ELSE ScanPhrases(text, i + 1)

\* the texts of the transcriptions: "", "hello", "quietude", "Be quiet"
Texts == { << >>,
           <<"h","e","l","l","o">>,
           <<"q","u","i","e","t","u","d","e">>,
           <<"B","e"," ","q","u","i","e","t">> }

CancelFrame == [id |-> 0, kind |-> "cancel", text |-> << >>]

RECURSIVE Repeat(_, _)
Repeat(x, n) == IF n = 0 THEN << >> ELSE <<x>> \o Repeat(x, n - 1)

\* the frame the InterruptHandler receives for the frame f the gate pushed:
\* the speech-to-text service between them turns audio into a transcription
Transcribed(f, text) ==
    [id |-> f.id,
     kind |-> IF f.kind = "audio" THEN "transcription" ELSE f.kind,
     text |-> text]

\* InterruptHandler.process_frame on the next frame the gate pushed
InterruptProcess(text) ==
    LET frame == Transcribed(out[taken + 1], text)
        scan == ScanPhrases(Strip(Lower(frame.text)), 1)
    IN
    /\ taken < Len(out)
    /\ frame.kind # "transcription" => text = << >>
    /\ taken' = taken + 1
    /\ heard' = frame
    /\ IF frame.kind = "transcription" /\ scan.matched
       THEN /\ down' = down \o Repeat(CancelFrame, scan.cancels)
            /\ GoToSleepStep
       ELSE /\ down' = Append(down, frame)
            /\ UNCHANGED <<now, restVars, timerVars, gateVars, trackerVars>>
    /\ UNCHANGED <<tracker_muted, listener, commands, seen, recVars>>

\* ----------------------------------------------- StateTrackingProcessor

\* the frames of the speech synthesis: TextFrame, TTSStartedFrame and
\* TTSStoppedFrame, and the text of the TextFrames: "Hi "
SynthKinds == {"text", "tts_started", "tts_stopped"}
Chunks == { <<"H","i"," ">> }

\* a frame of the speech synthesis reaches the StateTrackingProcessor, which
\* takes its frames one at a time
SynthFrame(kind, text) ==
    /\ seen = Len(down)
    /\ Cardinality({i \in DOMAIN down : down[i].kind \in SynthKinds}) < MaxEvents
    /\ kind = "text" <=> text # << >>
    /\ down' = Append(down, [id |-> 0, kind |-> kind, text |-> text])
    /\ UNCHANGED <<now, restVars, timerVars, gateVars, trackerVars, tracker_muted,
                   listener, commands, taken, heard, seen, recVars>>

\* process_frame without the tests of _is_awake of lines 58 and 69
WantedNoAwakeCheck(frame) ==
    CASE frame.kind = "start" -> "standby"
      [] frame.kind = "user_started" -> "listening"
      [] frame.kind = "user_stopped" -> "processing"
      [] frame.kind = "tts_started" -> "speaking"
      [] frame.kind = "tts_stopped" /\ is_awake -> "idle"
      [] frame.kind = "end" -> "offline"
      [] OTHER -> current_state

\* the state StateTrackingProcessor.process_frame asks the tracker for
Wanted(frame) ==
    CASE frame.kind = "start" -> "standby"
      [] frame.kind = "user_started" /\ is_awake -> "listening"
      [] frame.kind = "user_stopped" /\ is_awake -> "processing"
      [] frame.kind = "tts_started" -> "speaking"
      [] frame.kind = "tts_stopped" /\ is_awake -> "idle"
      [] frame.kind = "end" -> "offline"
      [] OTHER -> current_state

\* lines 63-65 and 85-87 call state_tracker.add_user_message and
\* state_tracker.add_assistant_message; VoiceAssistantStateTracker defines
\* neither, so the call raises AttributeError and process_frame ends there
CallsMissingMethod(frame) ==
    \/ frame.kind = "transcription" /\ is_awake /\ frame.text # << >>
    \/ frame.kind = "tts_stopped" /\ Strip(current_assistant_message) # << >>

\* process_frame without the reset of line 81
StateProcessNoReset ==
    LET frame == down[seen + 1]
        r == SetState(current_state, last_state_change, Wanted(frame))
    IN
    /\ seen < Len(down)
    /\ seen' = seen + 1
    /\ handled' = [kind |-> frame.kind, awake |-> is_awake,
                   raised |-> CallsMissingMethod(frame)]
    /\ history' = history
    /\ IF CallsMissingMethod(frame)
       THEN UNCHANGED <<current_state, last_state_change, published, inflight,
                        current_assistant_message, passed>>
       ELSE /\ current_state' = r.cur
            /\ last_state_change' = r.last
            /\ IF r.publishes
               THEN /\ published' = Append(published, StateMsg(Wanted(frame)))
                    /\ inflight' = inflight
                                      (+) SetToBag({Call(Wanted(frame), "other")})
               ELSE UNCHANGED <<published, inflight>>
            /\ current_assistant_message' =
                  IF frame.kind = "text"
                  THEN current_assistant_message \o frame.text
                  ELSE current_assistant_message
            /\ passed' = Append(passed, frame)
    /\ UNCHANGED <<now, timerVars, gateVars, connected, mqtt_client, calls,
                   requested, teardown, tracker_muted, listener, commands,
                   taken, heard, down>>

\* StateTrackingProcessor.process_frame on the next frame that reaches it.
\* The processor takes the next frame only when this one is done, so the
\* suspension in set_state is not a step of its own here: the state message
\* is sent at the call, the attributes message follows (PublishAttributes).
StateProcess ==
    LET frame == down[seen + 1]
        r == SetState(current_state, last_state_change, Wanted(frame))
    IN
    /\ seen < Len(down)
    /\ seen' = seen + 1
    /\ handled' = [kind |-> frame.kind, awake |-> is_awake,
                   raised |-> CallsMissingMethod(frame)]
    /\ history' = history
    /\ IF CallsMissingMethod(frame)
       THEN UNCHANGED <<current_state, last_state_change, published, inflight,
                        current_assistant_message, passed>>
       ELSE /\ current_state' = r.cur
            /\ last_state_change' = r.last
            /\ IF r.publishes
               THEN /\ published' = Append(published, StateMsg(Wanted(frame)))
                    /\ inflight' = inflight
                                      (+) SetToBag({Call(Wanted(frame), "other")})
               ELSE UNCHANGED <<published, inflight>>
            /\ current_assistant_message' =
                  CASE frame.kind = "text" ->
                           current_assistant_message \o frame.text
                    [] frame.kind = "tts_started" -> << >>
                    [] OTHER -> current_assistant_message
            /\ passed' = Append(passed, frame)
    /\ UNCHANGED <<now, timerVars, gateVars, connected, mqtt_client, calls,
                   requested, teardown, tracker_muted, listener, commands,
                   taken, heard, down>>

\* ---------------------------------------------- the mute command listener

Payloads == {"ON", "OFF", "on"}
MuteMsg(muted) == [topic |-> "mute", state |-> IF muted THEN "ON" ELSE "OFF"]

\* _listen_for_mute_commands, lines 273-283, for one message on the command
\* topic, up to the suspension in _publish_mute_state; ok is FALSE when the
\* publish raises
MuteCommand(payload, ok) ==
    LET new_muted == (payload = "ON") IN
    /\ listener.pc = "idle"
    /\ connected
    /\ commands < MaxCommands
    /\ commands' = commands + 1
    /\ IF new_muted # tracker_muted
       THEN /\ tracker_muted' = new_muted
            /\ listener' = [pc |-> "publish", muted |-> new_muted]
            /\ published' = IF ok /\ mqtt_client
                            THEN Append(published, MuteMsg(new_muted))
                            ELSE published
       ELSE /\ ok
            /\ UNCHANGED <<tracker_muted, listener, published>>
    /\ UNCHANGED <<now, timerVars, gateVars, trackerVars, inflight, calls,
                   requested, teardown, taken, heard, down, seen, recVars>>

\* _listen_for_mute_commands, lines 286-287: the callback of bot.py, which is
\* wake_processor.set_muted
MuteCallback ==
    /\ listener.pc = "publish"
    /\ listener' = [pc |-> "idle", muted |-> FALSE]
    /\ SetMutedStep(listener.muted)
    /\ UNCHANGED <<tracker_muted, commands, taken, heard, down, seen, recVars>>

\* handle_mute and handle_unmute of bot.py: VoiceAssistantStateTracker.set_muted
\* (the publish of _publish_mute_state needs the connection) and the reply to
\* the assistant
HandleMute(muted) ==
    /\ commands < MaxCommands
    /\ commands' = commands + 1
    /\ IF muted # tracker_muted
       THEN /\ tracker_muted' = muted
            /\ published' = IF connected /\ mqtt_client
                            THEN Append(published, MuteMsg(muted))
                            ELSE published
       ELSE UNCHANGED <<tracker_muted, published>>
    /\ UNCHANGED <<now, timerVars, gateVars, trackerVars, inflight, calls,
                   requested, teardown, listener, taken, heard, down, seen, recVars>>

\* time passes, a tenth of a second at a time
GateClock ==
    /\ now < StartTime + MaxGateTicks
    /\ now' = now + 1
    /\ UNCHANGED <<timerVars, pipeVars, gateVars, trackerVars, restVars>>

\* time passes for as long as a keepalive is still asleep
\* (asyncio.sleep(self._keepalive_secs) always returns)
KeepaliveClock ==
    /\ \/ now < StartTime + MaxGateTicks
       \/ \E k \in KeepaliveSlots : ka[k].status = "sleeping" /\ now < ka[k].wake
    /\ now' = now + 1
    /\ UNCHANGED <<timerVars, pipeVars, gateVars, trackerVars, restVars>>

PredSeqs == UNION {[1..n -> Predictions] : n \in 0..2}

GateNext ==
    \/ \E fmt \in AudioFormats, len \in AudioLens, preds \in PredSeqs :
          ProcessAudioFrame(fmt, len, preds)
    \/ ResumeWakeUp
    \/ \E kind \in FrameKinds \ {"audio"} : ProcessOtherFrame(kind)
    \/ \E muted \in BOOLEAN : SetMuted(muted)
    \/ GoToSleep
    \/ \E k \in KeepaliveSlots : KeepaliveExpire(k)
    \/ \E k \in KeepaliveSlots : KeepaliveReturn(k)
    \/ \E k \in KeepaliveSlots : KeepaliveCancelled(k)
    \/ Connect
    \/ GateClock


Init ==
    /\ now = StartTime
    /\ TimerInit
    /\ GateInit
    /\ TrackerInit

TimerNext ==
    \/ \E d \in Durations, n \in NameArgs : SetTimer(d, n)
    \/ \E t \in TimerTasks : Expire(t)
    \/ \E t \in TimerTasks : Cleanup(t)
    \/ \E t \in TimerTasks : HandleCancelled(t)
    \/ \E n \in AllNames : CancelTimer(n)
    \/ CancelAllTimers
    \/ TimerClock

TimerSpec == Init /\ [][TimerNext]_vars

\* the timer manager with the queries of the assistant
QueryNext ==
    \/ \E d \in Durations, n \in NameArgs : SetTimer(d, n)
    \/ \E t \in TimerTasks : Expire(t)
    \/ \E t \in TimerTasks : Cleanup(t)
    \/ \E t \in TimerTasks : HandleCancelled(t)
    \/ \E n \in AllNames : CancelTimer(n)
    \/ ListTimers
    \/ \E n \in AllNames : GetTimerStatus(n)
    \/ TimerClock

QuerySpec == Init /\ [][QueryNext]_vars

GateSpec == Init /\ [][GateNext]_vars

\* the timer manager called with durations that are not positive
TimerEdgeNext ==
    \/ \E d \in EdgeDurations, n \in NameArgs : SetTimerUpTo(MaxFairTasks, d, n)
    \/ \E t \in TimerTasks : Expire(t)
    \/ \E t \in TimerTasks : Cleanup(t)
    \/ \E t \in TimerTasks : HandleCancelled(t)
    \/ \E n \in EdgeNames : CancelTimer(n)
    \/ CancelAllTimers
    \/ TimerClock

TimerEdgeSpec == Init /\ [][TimerEdgeNext]_vars

\* the frames and the scores of the specifications of the pipeline
MuteKinds == {"transcription", "user_started"}
PipeFormat == [sample_rate |-> 16000, num_channels |-> 1]
PipePreds == UNION {[1..n -> {[raises |-> FALSE, score |-> sc] : sc \in Scores}] :
                      n \in 0..2}

\* the scores of frames that complete at most one chunk
WakePreds == {preds \in PipePreds : Len(preds) <= 1}

\* the gate, the processors behind it and the mute command listener
MuteNext ==
    \/ \E len \in AudioLens, preds \in PipePreds :
          ProcessAudioFrame(PipeFormat, len, preds)
    \/ ResumeWakeUp
    \/ \E kind \in MuteKinds : ProcessOtherFrame(kind)
    \/ InterruptProcess(<< >>)
    \/ StateProcess
    \/ \E payload \in Payloads, ok \in BOOLEAN : MuteCommand(payload, ok)
    \/ MuteCallback
    \/ \E k \in KeepaliveSlots : KeepaliveExpire(k)
    \/ \E k \in KeepaliveSlots : KeepaliveReturn(k)
    \/ \E k \in KeepaliveSlots : KeepaliveCancelled(k)
    \/ Connect
    \/ GateClock

MuteSpec == Init /\ [][MuteNext]_vars

\* the gate, the mute command listener and the assistant's mute functions
SwitchNext ==
    \/ \E len \in AudioLens, preds \in WakePreds :
          ProcessAudioFrame(PipeFormat, len, preds)
    \/ ResumeWakeUp
    \/ \E payload \in Payloads, ok \in BOOLEAN : MuteCommand(payload, ok)
    \/ MuteCallback
    \/ \E muted \in BOOLEAN : HandleMute(muted)
    \/ \E k \in KeepaliveSlots : KeepaliveExpire(k)
    \/ \E k \in KeepaliveSlots : KeepaliveReturn(k)
    \/ \E k \in KeepaliveSlots : KeepaliveCancelled(k)
    \/ Connect
    \/ GateClock

SwitchSpec == Init /\ [][SwitchNext]_vars

\* the gate and the InterruptHandler behind it
InterruptNext ==
    \/ \E len \in AudioLens, preds \in WakePreds :
          ProcessAudioFrame(PipeFormat, len, preds)
    \/ ResumeWakeUp
    \/ ProcessOtherFrame("transcription")
    \/ \E text \in Texts : InterruptProcess(text)
    \/ \E muted \in BOOLEAN : SetMuted(muted)
    \/ \E k \in KeepaliveSlots : KeepaliveExpire(k)
    \/ \E k \in KeepaliveSlots : KeepaliveReturn(k)
    \/ \E k \in KeepaliveSlots : KeepaliveCancelled(k)
    \/ Connect
    \/ GateClock

InterruptSpec == Init /\ [][InterruptNext]_vars

\* the gate, the InterruptHandler and the StateTrackingProcessor with the
\* frames of the user's speech
SpeechTexts == { << >>, <<"h","e","l","l","o">> }
SpeechKinds == {"user_started", "user_stopped"}

SpeechNext ==
    \/ \E len \in AudioLens, preds \in WakePreds :
          ProcessAudioFrame(PipeFormat, len, preds)
    \/ ResumeWakeUp
    \/ \E kind \in SpeechKinds : ProcessOtherFrame(kind)
    \/ \E text \in SpeechTexts : InterruptProcess(text)
    \/ StateProcess
    \/ GoToSleep
    \/ \E k \in KeepaliveSlots : KeepaliveExpire(k)
    \/ \E k \in KeepaliveSlots : KeepaliveReturn(k)
    \/ \E k \in KeepaliveSlots : KeepaliveCancelled(k)
    \/ Connect
    \/ GateClock

SpeechSpec == Init /\ [][SpeechNext]_vars

\* the gate and the StateTrackingProcessor with the frames of the speech
\* synthesis, the state tracker not connected
RecorderNext ==
    \/ \E len \in AudioLens, preds \in WakePreds :
          ProcessAudioFrame(PipeFormat, len, preds)
    \/ \E kind \in SynthKinds, text \in Chunks \cup {<< >>} : SynthFrame(kind, text)
    \/ StateProcess
    \/ \E k \in KeepaliveSlots : KeepaliveExpire(k)
    \/ \E k \in KeepaliveSlots : KeepaliveCancelled(k)
    \/ GateClock

RecorderSpec == Init /\ [][RecorderNext]_vars

\* time passes, a tenth of a second at a time, for two debounce intervals
RaceClock ==
    /\ now < StartTime + MaxRaceTicks
    /\ now' = now + 1
    /\ UNCHANGED <<timerVars, pipeVars, gateVars, trackerVars, restVars>>

\* the gate and the mute switch, over a time that lets two state changes be
\* published
RaceNext ==
    \/ \E len \in AudioLens, preds \in WakePreds :
          ProcessAudioFrame(PipeFormat, len, preds)
    \/ ResumeWakeUp
    \/ \E muted \in BOOLEAN : SetMuted(muted)
    \/ \E k \in KeepaliveSlots : KeepaliveExpire(k)
    \/ \E k \in KeepaliveSlots : KeepaliveReturn(k)
    \/ \E k \in KeepaliveSlots : KeepaliveCancelled(k)
    \/ Connect
    \/ RaceClock

RaceSpec == Init /\ [][RaceNext]_vars

\* the pipeline takes frames until the EndFrame has gone through or the
\* disconnect handler has cancelled the task (bot.py 296-307)
Running == arrived.kind # "end" /\ teardown # "done"

\* the gate, the processors behind it and the end of the session
TeardownNext ==
    \/ \E len \in AudioLens, preds \in PipePreds :
          Running /\ ProcessAudioFrame(PipeFormat, len, preds)
    \/ ResumeWakeUp
    \/ Running /\ ProcessOtherFrame("end")
    \/ InterruptProcess(<< >>)
    \/ StateProcess
    \/ \E k \in KeepaliveSlots : KeepaliveExpire(k)
    \/ \E k \in KeepaliveSlots : KeepaliveReturn(k)
    \/ \E k \in KeepaliveSlots : KeepaliveCancelled(k)
    \/ Connect
    \/ ConnectFails
    \/ \E ok \in BOOLEAN : Disconnect(ok)
    \/ \E state \in States, by \in Callers, ok \in BOOLEAN :
          PublishAttributes(Call(state, by), ok)
    \/ DisconnectFinish
    \/ GateClock

TeardownSpec == Init /\ [][TeardownNext]_vars

TrackerNext ==
    \/ \E state \in Targets, ok \in BOOLEAN : SetStateCall(state, ok)
    \/ \E state \in States, by \in Callers, ok \in BOOLEAN :
          PublishAttributes(Call(state, by), ok)
    \/ Connect
    \/ ConnectFails
    \/ \E ok \in BOOLEAN : Disconnect(ok)
    \/ DisconnectFinish
    \/ GateClock

TrackerSpec == Init /\ [][TrackerNext]_vars

TimerFairNext ==
    \/ \E d \in Durations, n \in NameArgs :
          \* only timers that expire before the clock of the model stops
          now + d * 600 <= TimerHorizon /\ SetTimerUpTo(MaxFairTasks, d, n)
    \/ \E t \in TimerTasks : Expire(t)
    \/ \E t \in TimerTasks : Cleanup(t)
    \/ \E t \in TimerTasks : HandleCancelled(t)
    \/ \E n \in AllNames : CancelTimer(n)
    \/ CancelAllTimers
    \/ TimerClock

\* the gate with its keepalive task scheduled by the event loop
GateFairNext ==
    \/ \E len \in AudioLens, preds \in WakePreds :
          ProcessAudioFrame(PipeFormat, len, preds)
    \/ ResumeWakeUp
    \/ \E kind \in MuteKinds : ProcessOtherFrame(kind)
    \/ \E muted \in BOOLEAN : SetMuted(muted)
    \/ GoToSleep
    \/ \E k \in KeepaliveSlots : KeepaliveExpire(k)
    \/ \E k \in KeepaliveSlots : KeepaliveReturn(k)
    \/ \E k \in KeepaliveSlots : KeepaliveCancelled(k)
    \/ Connect
    \/ KeepaliveClock

GateFairness ==
    /\ WF_vars(KeepaliveClock)
    /\ WF_vars(ResumeWakeUp)
    /\ \A k \in KeepaliveSlots :
          /\ WF_vars(KeepaliveExpire(k))
          /\ WF_vars(KeepaliveReturn(k))
          /\ WF_vars(KeepaliveCancelled(k))

\* the event loop resumes every ready coroutine and the clock advances
GateFairSpec == Init /\ [][GateFairNext]_vars /\ GateFairness

TimerFairness ==
    /\ WF_vars(TimerClock)
    /\ \A t \in TimerTasks :
          WF_vars(Expire(t)) /\ WF_vars(Cleanup(t)) /\ WF_vars(HandleCancelled(t))

\* the event loop runs every ready task and the clock advances
TimerFairSpec == Init /\ [][TimerFairNext]_vars /\ TimerFairness

\* ------------------------------------------------------- timer properties

AnnouncementsOf(t) == {e \in BagToSet(queued) : e.task = t}
AnnouncedCount(t) ==
    IF AnnouncementsOf(t) = {} THEN 0
    ELSE CopiesIn(CHOOSE e \in AnnouncementsOf(t) : TRUE, queued)
Announced(t) == AnnouncementsOf(t) # {}
Registered(t) == \E n \in DOMAIN timers : timers[n].task = t
CancelRequested(t) == ttask[t].status \in {"cancel_pending", "cancelled"}

\* C2: for every timer instance, announcing its expiry and having cancel_timer
\* return the "cancelled" confirmation for it are mutually exclusive.
C2_CancelExcludesExpiry ==
    \A t \in TimerTasks : ~(Announced(t) /\ ttask[t].confirmed)

\* C3: set_timer with a name that is in the registry returns the "already
\* exists" rejection and changes neither the registry nor the tasks.
C3_DuplicateRejected ==
    [][\A d \in Durations, n \in NameArgs :
         (EffectiveName(d, n) \in DOMAIN timers /\ SetTimer(d, n)) =>
            /\ lastResult' = "already_exists"
            /\ timers' = timers
            /\ ttask' = ttask
            /\ nextTask' = nextTask
            /\ queued' = queued]_vars

C3_Witness ==
    /\ lastResult = "already_exists"
    /\ \E n \in DOMAIN timers :
          Live(timers[n].task) /\ timers[n].start_time < now

\* C4: at most one live countdown task (neither cancelled nor finished) exists
\* per timer name.
C4_OneLiveTaskPerName ==
    \A t1, t2 \in TimerTasks :
        (Live(t1) /\ Live(t2) /\ ttask[t1].name = ttask[t2].name) => t1 = t2

\* C5: a timer that was set and is never cancelled announces exactly once and
\* ends finished and out of the registry; no timer ever announces twice.
C5_ExpiryAnnouncesOnce ==
    /\ [](\A t \in TimerTasks :
            Cardinality(AnnouncementsOf(t)) <= 1 /\ AnnouncedCount(t) <= 1)
    /\ \A t \in TimerTasks :
          (ttask[t].status = "sleeping") ~>
             \/ CancelRequested(t)
             \/ /\ ttask[t].status = "done"
                /\ AnnouncedCount(t) = 1
                /\ ~Registered(t)

C5_Witness ==
    \E t \in TimerTasks :
        /\ ttask[t].status = "done"
        /\ AnnouncedCount(t) = 1
        /\ \A e \in AnnouncementsOf(t) : e.text \notin DOMAIN timers
        /\ ~ttask[t].confirmed

\* C6: cancel_timer on a name that is not in the registry returns "not found",
\* changes nothing, and can be repeated with the same result.
C6_CancelAbsentIsNoOp ==
    [][\A n \in AllNames :
         (n \notin DOMAIN timers /\ CancelTimer(n)) =>
            /\ lastResult' = "not_found"
            /\ timers' = timers
            /\ ttask' = ttask
            /\ nextTask' = nextTask
            /\ queued' = queued
            /\ n \notin DOMAIN timers']_vars

C6_Witness ==
    /\ lastResult = "not_found"
    /\ "pasta" \notin DOMAIN timers
    /\ \E t \in TimerTasks : ttask[t].status = "cancelled" /\ ttask[t].confirmed
    /\ \E t \in TimerTasks : Live(t) /\ Registered(t)

\* C19: set_timer with a duration of zero or less creates no registry entry
\* and starts no countdown, and no announcement is queued for it.
C19_NonPositiveRejected ==
    /\ \A n \in DOMAIN timers : timers[n].duration_seconds > 0
    /\ \A t \in TimerTasks :
          ttask[t].name \notin {DefaultName(d) : d \in {e \in EdgeDurations : e <= 0}}
    /\ \A a \in BagToSet(queued) :
          a.text \notin {DefaultName(d) : d \in {e \in EdgeDurations : e <= 0}}

\* ----------------------------------------------------- tracker properties

Last(q) == q[Len(q)]

\* the publications on the state topic, in order
StatePubs == SelectSeq(published, LAMBDA m : m.topic = "state")
SetStateActs(state) ==
    \E by \in Callers, ok \in BOOLEAN : SetStateStep(state, by, ok)

\* C15: a set_state call whose target is the current state changes nothing
\* and publishes nothing, and no two consecutive publications on the state
\* topic carry the same state.
C15_NoConsecutiveDuplicates ==
    \A i \in 1..(Len(StatePubs) - 1) : StatePubs[i].state # StatePubs[i + 1].state

\* C15, amended: a set_state call whose target is the current state changes
\* nothing and publishes nothing; every publication on the state topic
\* carries the new current state, which differs from the state it replaces.
C15_SameStateIsNoOp ==
    /\ [][\A state \in Targets :
            (state = current_state /\ SetStateActs(state)) =>
               UNCHANGED <<current_state, last_state_change, published,
                           inflight>>]_vars
    /\ [][(published' # published /\ Last(published').topic = "state") =>
            /\ Last(published').state = current_state'
            /\ current_state' # current_state]_vars

C15_Witness ==
    /\ requested.state = requested.from
    /\ requested.elapsed >= DebounceTicks
    /\ Len(StatePubs) = 1
    /\ current_state = StatePubs[1].state
    /\ connected
    /\ calls = 2

\* C16: a set_state call for offline made in any other state sets the state to
\* offline and the timestamp to the present, and reaches the publish (the
\* message is sent when the tracker is connected and the publish does not
\* raise), however short the time since the last change.
C16_OfflineNeverDebounced ==
    [][\A by \in Callers, ok \in BOOLEAN :
         (current_state # "offline" /\ SetStateStep("offline", by, ok)) =>
            /\ current_state' = "offline"
            /\ last_state_change' = now
            /\ (connected /\ mqtt_client /\ ok) =>
                   published' = Append(published, StateMsg("offline"))]_vars

C16_Witness ==
    /\ requested = [state |-> "offline", from |-> "listening", elapsed |-> 0]
    /\ current_state = "offline"
    /\ last_state_change = now
    /\ Len(StatePubs) = 2
    /\ StatePubs[2] = StateMsg("offline")

\* C17: a set_state call for another state than the current one and than
\* offline, made less than the debounce interval after the last change, leaves
\* the state and the timestamp as they were and publishes nothing; the state
\* changes to a state other than offline only when the interval has elapsed.
C17_DebounceDrops ==
    /\ [][\A state \in (Targets \cap States) \ {"offline"} :
            (/\ state # current_state
             /\ now - last_state_change < DebounceTicks
             /\ SetStateActs(state)) =>
               UNCHANGED <<current_state, last_state_change, published,
                           inflight>>]_vars
    /\ [][(current_state' # current_state /\ current_state' # "offline") =>
            now - last_state_change >= DebounceTicks]_vars

C17_Witness ==
    /\ requested = [state |-> "listening", from |-> "processing", elapsed |-> 0]
    /\ current_state = "processing"
    /\ last_state_change = now
    /\ StatePubs = <<StateMsg("listening"), StateMsg("processing")>>

\* -------------------------------------------------------- gate properties

Outstanding == {k \in KeepaliveSlots : ka[k].status = "sleeping"}
Forwarded(id) == \E i \in DOMAIN out : out[i].id = id
\* the gate takes a frame from its input in this step
Arrives == arrived'.id = arrived.id + 1
ArrivingFrame == [id |-> arrived'.id, kind |-> arrived'.kind]

\* C1: at most one keepalive countdown is outstanding (armed and neither fired
\* nor cancelled) at any instant.
C1_OneKeepalive == Cardinality(Outstanding) <= 1

C1_Witness ==
    \E k1, k2 \in KeepaliveSlots :
        /\ keepalive_task = k1
        /\ ka[k1].status = "sleeping"
        /\ ka[k2].status = "cancel_pending"
        /\ is_awake

\* C7: no raw-audio or user-input frame that the gate receives while Asleep is
\* forwarded downstream.
C7_AsleepForwardsNothing ==
    (arrived.mode = "asleep" /\ arrived.kind \in GatedKinds) => ~Forwarded(arrived.id)

\* C7, amended: of the frames received while Asleep no user-input frame is
\* forwarded, and an audio frame is forwarded only after its chunks were
\* scored and with the gate awake at that moment.
C7_AsleepForwardsOnlyWakingAudio ==
    [][(out' # out /\ arrived'.mode = "asleep" /\ Last(out').id = arrived'.id
           /\ arrived'.kind \in GatedKinds)
        => (arrived'.kind = "audio" /\ arrived'.scored > 0 /\ is_awake')]_vars

C7_Witness ==
    /\ arrived.mode = "asleep"
    /\ arrived.kind = "audio"
    /\ arrived.scored > 0
    /\ gate.pc = "idle"
    /\ ~Forwarded(arrived.id)
    /\ arrived.id > 1

\* C8: a raw-audio or user-input frame received while Awake is forwarded in
\* the step that receives it, unmodified; the forwarded frames are in arrival
\* order and none is forwarded twice.
C8_AwakeForwardsAll ==
    /\ [][(Arrives /\ Mode = "awake" /\ arrived'.kind \in GatedKinds)
            => out' = Append(out, ArrivingFrame)]_vars
    /\ [](\A i, j \in DOMAIN out : i < j => out[i].id < out[j].id)

C8_Witness ==
    /\ arrived.mode = "awake"
    /\ arrived.kind = "transcription"
    /\ Len(out) = 2
    /\ Last(out) = [id |-> arrived.id, kind |-> "transcription"]
    /\ out[1].kind = "audio"

\* C9: while the gate is Muted no raw-audio or user-input frame is forwarded,
\* the gate does not become awake and no keepalive is armed.
C9_MutedBlocksDetection ==
    [][is_muted =>
         /\ (out' # out => Last(out').kind \notin GatedKinds)
         /\ (is_awake' => is_awake)
         /\ \A k \in KeepaliveSlots :
               ka'[k].status = "sleeping" => ka[k].status = "sleeping"]_vars

C11_MuteWhileAwake ==
    /\ [][(is_awake /\ listener.muted /\ MuteCallback) =>
            current_state' = "muted"]_vars
    /\ [][(is_muted /\ Arrives /\ arrived'.kind \in {"audio", "transcription"}) =>
            out' = out]_vars
    /\ [][(is_muted /\ current_state = "muted") =>
            current_state' # "listening"]_vars

\* C20: a message on the mute command topic whose payload is neither "ON" nor
\* "OFF" changes nothing: the tracker's mute flag stays, no mute state is
\* published and the callback that mutes or unmutes the gate is not called.
C20_OtherPayloadIgnored ==
    [][\A payload \in Payloads \ {"ON", "OFF"}, ok \in BOOLEAN :
         MuteCommand(payload, ok) =>
            /\ tracker_muted' = tracker_muted
            /\ listener' = listener
            /\ published' = published]_vars

\* the patterns that match the text of a frame
Matching(text) ==
    {i \in DOMAIN INTERRUPT_PHRASES :
        Search(INTERRUPT_PHRASES[i], Strip(Lower(text)))}
\* the InterruptHandler processes a transcription that matches a pattern
HandlesMatch ==
    /\ taken' = taken + 1
    /\ heard'.kind = "transcription"
    /\ Matching(heard'.text) # {}

\* C21: cancel_all_timers leaves the registry empty and no countdown task
\* asleep, so that no timer that was counting down announces afterwards.
C21_CancelAllCancelsEveryTimer ==
    [][CancelAllTimers =>
         /\ timers' = << >>
         /\ \A t \in TimerTasks : ttask'[t].status # "sleeping"]_vars

\* C26: a set_state call whose publish raises, or that finds the tracker not
\* connected, still sets the state and the timestamp, publishes nothing and
\* leaves nothing behind that publishes later; the state topic only ever
\* receives the target of the call being made; the next call that changes the
\* state while connected publishes, whatever happened before.
C26_PublishFailureKeepsState ==
    /\ [][\A state \in Targets, by \in Callers :
            SetStateStep(state, by, FALSE) =>
               /\ current_state' = state
               /\ last_state_change' = now
               /\ UNCHANGED <<published, inflight>>]_vars
    /\ [][\A state \in Targets, by \in Callers :
            (/\ ~(connected /\ mqtt_client)
             /\ SetStateStep(state, by, TRUE)
             /\ requested'.state \in States \ {current_state}
             /\ (now - last_state_change >= DebounceTicks \/ state = "offline")) =>
               /\ current_state' = state
               /\ last_state_change' = now
               /\ UNCHANGED <<published, inflight>>]_vars
    /\ [][(published' # published /\ Last(published').topic = "state") =>
            /\ calls' = calls + 1
            /\ Last(published').state = requested'.state]_vars
    /\ [][\A state \in Targets, by \in Callers :
            (/\ connected /\ mqtt_client
             /\ SetStateStep(state, by, TRUE)
             /\ current_state' # current_state) =>
               published' = Append(published, StateMsg(state))]_vars

\* listening was set while its publish raised; processing, set later, was
\* published
C26_Witness ==
    /\ calls = 2
    /\ connected
    /\ requested.state = "processing"
    /\ requested.from = "listening"
    /\ current_state = "processing"
    /\ StatePubs = <<StateMsg("processing")>>

\* the scores of preds are all below the threshold or scoring raised
NoDetection(preds) ==
    \A i \in DOMAIN preds : preds[i].raises \/ preds[i].score < Threshold

\* C27: an audio frame all of whose chunks score below the threshold or raise
\* leaves the activation state, the keepalive and the state of the tracker as
\* they were.
C27_BelowThresholdChangesNothing ==
    [][(arrived'.id = arrived.id + 1 /\ arrived'.kind = "audio") =>
         \A fmt \in AudioFormats, len \in AudioLens, preds \in PredSeqs :
            (NoDetection(preds) /\ ProcessAudioFrame(fmt, len, preds)) =>
               UNCHANGED <<is_awake, is_muted, keepalive_task, ka, current_state,
                           last_state_change>>]_vars

\* two chunks were scored while asleep and the gate neither woke up nor
\* forwarded the frame, nor was the tracker ever told of a detection
C27_Witness ==
    /\ arrived = [id |-> 2, kind |-> "audio", mode |-> "asleep", scored |-> 2,
                  detected |-> 0]
    /\ gate = Idle
    /\ out = << >>
    /\ ~is_awake
    /\ \A k \in KeepaliveSlots : ka[k] = NoKeepalive
    /\ current_state = "offline"
    /\ last_state_change = 0

\* the InterruptHandler processes a transcription that matches no pattern
HandlesNoMatch ==
    /\ taken' = taken + 1
    /\ heard'.kind = "transcription"
    /\ Matching(heard'.text) = {}

\* C28: a transcription that matches no pattern is pushed downstream as it
\* came, once, with no CancelFrame, and the step leaves the activation state
\* and the keepalive as they were.
C28_NonMatchingPassesThrough ==
    [][HandlesNoMatch =>
         /\ down' = Append(down, heard')
         /\ heard'.id = out[taken + 1].id
         /\ UNCHANGED <<is_awake, is_muted, keepalive_task, ka>>]_vars

\* "quietude" went through while the gate stayed awake
C28_Witness ==
    /\ taken = 1
    /\ heard.text = <<"q","u","i","e","t","u","d","e">>
    /\ down = <<heard>>
    /\ is_awake

\* C29: when the callback of an unmute command has run, the gate is asleep
\* (neither muted nor awake) and SessionState is standby.
C29_UnmuteGivesStandby ==
    [][(listener.pc = "publish" /\ ~listener.muted /\ MuteCallback) =>
         /\ ~is_muted'
         /\ ~is_awake'
         /\ current_state' = "standby"]_vars

\* the StateTrackingProcessor processes a frame of one of the kinds
Handles(kinds) == seen' = seen + 1 /\ down[seen + 1].kind \in kinds

\* C22: after a TTSStartedFrame has been processed the accumulator is empty,
\* whether the speaking transition was made or not; a TTSStoppedFrame that
\* finds the accumulator empty or blank adds no turn to the conversation log
\* (it does not call add_assistant_message).
C22_SynthesisStartResets ==
    /\ [][Handles({"tts_started"}) => current_assistant_message' = << >>]_vars
    /\ [][(Handles({"tts_stopped"}) /\ Strip(current_assistant_message) = << >>)
            => history' = history /\ ~handled'.raised]_vars

\* start, "Hi ", start, stop have been processed: the second start emptied
\* the accumulator and the stop added nothing
C22_Witness ==
    /\ seen = 4
    /\ [i \in 1..4 |-> down[i].kind]
          = <<"tts_started", "text", "tts_started", "tts_stopped">>
    /\ passed = down
    /\ current_assistant_message = << >>
    /\ handled = [kind |-> "tts_stopped", awake |-> FALSE, raised |-> FALSE]
    /\ history = << >>

\* C23: a TTSStoppedFrame that finds text in the accumulator adds one
\* assistant turn with the stripped text to the conversation log and empties
\* the accumulator, whether the gate is awake or not.
C23_SynthesisStopFlushes ==
    [][(Handles({"tts_stopped"}) /\ Strip(current_assistant_message) # << >>) =>
         /\ history' = Append(history, [role |-> "assistant",
                                        text |-> Strip(current_assistant_message)])
         /\ current_assistant_message' = << >>]_vars

\* C24: a transcription with text processed while the gate is awake adds one
\* user turn to the conversation log, any other transcription adds nothing,
\* and the log only grows at its end.
C24_TranscriptionRecorded ==
    /\ [][Handles({"transcription"}) =>
            history' = IF is_awake /\ down[seen + 1].text # << >>
                       THEN Append(history, [role |-> "user",
                                             text |-> down[seen + 1].text])
                       ELSE history]_vars
    /\ [][/\ Len(history') >= Len(history)
          /\ SubSeq(history', 1, Len(history)) = history]_vars

\* C25: the StateTrackingProcessor pushes every frame it processes, as it
\* came and in the order of arrival.
C25_EveryFrameForwarded ==
    [][seen' = seen + 1 => passed' = Append(passed, down[seen + 1])]_vars

\* C30: a speech-started or speech-stopped frame processed while the gate is
\* not awake changes nothing in the tracker and publishes nothing; such a
\* frame changes the state only when the gate is awake, and then to listening
\* and to processing.
C30_SpeechEventsNeedAwake ==
    /\ [][(Handles({"user_started", "user_stopped"}) /\ ~is_awake) =>
            UNCHANGED <<current_state, last_state_change, published,
                        inflight>>]_vars
    /\ [][(Handles({"user_started"}) /\ current_state' # current_state) =>
            is_awake /\ current_state' = "listening"]_vars
    /\ [][(Handles({"user_stopped"}) /\ current_state' # current_state) =>
            is_awake /\ current_state' = "processing"]_vars

\* a speech-started frame the gate forwarded was processed after the gate
\* had gone to sleep, and the state stayed standby
C30_Witness ==
    /\ handled = [kind |-> "user_started", awake |-> FALSE, raised |-> FALSE]
    /\ current_state = "standby"
    /\ connected

\* C12: an awake gate is asleep again later; the frames are finitely many,
\* so detections stop, and an interrupt or a mute puts the gate to sleep
\* itself: what is left is the keepalive, which fires and clears _is_awake.
C12_AwakeEventuallyAsleep == is_awake ~> ~is_awake

\* the keepalive has fired, put the gate to sleep and is publishing standby
C12_Witness ==
    /\ ~is_awake
    /\ ~is_muted
    /\ current_state = "standby"
    /\ \E k \in KeepaliveSlots : ka[k].status = "publishing"

\* C13: for a transcription that matches an interrupt phrase the
\* InterruptHandler pushes one CancelFrame downstream and nothing else,
\* however many phrases match.
C13_OneCancelPerMatch ==
    [][HandlesMatch => down' = Append(down, CancelFrame)]_vars

C13_Witness ==
    /\ heard.kind = "transcription"
    /\ Cardinality(Matching(heard.text)) = 2
    /\ down = <<CancelFrame>>
    /\ taken = 1

\* C14: when the InterruptHandler has handled a matching transcription the
\* gate is not awake and every keepalive that was armed is cancelled,
\* whatever state the gate was in.
C14_InterruptCancelsKeepalive ==
    [][HandlesMatch =>
         /\ ~is_awake'
         /\ \A k \in KeepaliveSlots :
               ka[k].status = "sleeping" => ka'[k].status = "cancel_pending"]_vars

\* the session has ended: disconnect() has returned, or the
\* StateTrackingProcessor has processed the EndFrame
SessionEnded ==
    \/ teardown = "done"
    \/ \E i \in 1..seen : down[i].kind = "end"

\* C18: once the session has ended and SessionState is offline, no step
\* changes SessionState.
C18_OfflineIsTerminal ==
    [][(SessionEnded /\ current_state = "offline") =>
         current_state' = "offline"]_vars

C31_CleanupLeavesNewerTimer ==
    [][\A t \in TimerTasks :
         (Cleanup(t) \/ HandleCancelled(t)) =>
            \A n \in DOMAIN timers :
               timers[n].task # t => (n \in DOMAIN timers' /\ timers'[n] = timers[n])]_vars

\* C32: a keepalive that was replaced or cancelled ends without acting; only
\* the keepalive armed last can expire the gate, and it does so no earlier
\* than one keepalive duration after the latest detection.
C32_OnlyLatestKeepaliveExpires ==
    [][\A k \in KeepaliveSlots :
         /\ ka[k].status = "cancel_pending" =>
               ka'[k].status \in {"cancel_pending", "none"}
         /\ KeepaliveExpire(k) =>
               /\ k = keepalive_task
               /\ now >= arrived.detected + KeepaliveTicks]_vars

\* C33: the gate is never Muted and Awake at the same time, however audio
\* processing and the mute commands of the listener interleave.
C33_NeverMutedAndAwake == ~(is_muted /\ is_awake)

\* C34: an audio frame that is not 16 kHz mono is neither scored nor buffered
\* and neither wakes the gate nor touches the keepalive; it is forwarded if
\* the gate is Awake and dropped if it is Asleep or Muted.
C34_MalformedAudioNotScored ==
    [][\A fmt \in AudioFormats, len \in AudioLens, preds \in PredSeqs :
         (/\ arrived'.id = arrived.id + 1
          /\ arrived'.kind = "audio"
          /\ ~(fmt.sample_rate = 16000 /\ fmt.num_channels = 1)
          /\ ProcessAudioFrame(fmt, len, preds)) =>
            /\ arrived'.scored = 0
            /\ arrived'.detected = arrived.detected
            /\ audio_buffer' = audio_buffer
            /\ is_awake' = is_awake
            /\ keepalive_task' = keepalive_task
            /\ ka' = ka
            /\ gate' = gate
            /\ current_state' = current_state
            /\ out' = IF Mode = "awake"
                      THEN Append(out, [id |-> arrived'.id, kind |-> "audio"])
                      ELSE out]_vars

\* the gate, awake with one byte buffered, has forwarded a second audio frame
\* without scoring or buffering it, which only happens to a malformed one
C34_Witness ==
    /\ arrived.id = 2
    /\ arrived.kind = "audio"
    /\ arrived.mode = "awake"
    /\ arrived.scored = 0
    /\ audio_buffer = 1
    /\ is_awake
    /\ Last(out) = [id |-> 2, kind |-> "audio"]

\* a timer whose duration has run out and whose countdown task has not yet
\* removed it from the registry
Lapsed(n) ==
    /\ n \in DOMAIN timers
    /\ now >= timers[n].start_time + timers[n].duration_seconds * 10

\* C35: list_timers leaves out the timers whose duration has lapsed and that
\* are still in the registry ("No active timers." if no other is left),
\* get_timer_status answers "should have expired" for them, and neither query
\* changes the registry or the countdown tasks.
C35_LapsedTimerQueries ==
    [][/\ ListTimers =>
            /\ lastResult' =
                  IF \A n \in DOMAIN timers : Lapsed(n) THEN "No active timers."
                  ELSE "Active timers: "
                          \o JoinEntries({n \in DOMAIN timers : ~Lapsed(n)})
            /\ UNCHANGED <<timers, ttask, nextTask, queued>>
       /\ \A n \in AllNames :
             (Lapsed(n) /\ GetTimerStatus(n)) =>
                /\ lastResult' = "Timer '" \o n \o "' should have expired by now."
                /\ UNCHANGED <<timers, ttask, nextTask, queued>>]_vars

\* list_timers has listed the two-minute timer and left out the lapsed 'pasta'
C35_Witness ==
    /\ lastResult = "Active timers: '2 minute timer': 1.0 minutes remaining"
    /\ Lapsed("pasta")
    /\ ~Lapsed("2 minute timer")

\* C36: once a synthesis-stopped frame has been processed the state of the
\* tracker is not Speaking, also when the gate fell asleep during the synthesis.
C36_StopEndsSpeaking ==
    [][Handles({"tts_stopped"}) => current_state' # "speaking"]_vars

\* C37: when the gate goes from Awake to Asleep, by keepalive expiry or by an
\* interrupt, the state of the tracker becomes Standby: it is not left at
\* Listening, Processing or Idle because the transition was debounced.
C37_AsleepGivesStandby ==
    [][(is_awake /\ ~is_awake' /\ ~is_muted') => current_state' = "standby"]_vars

\* C38: once a mute or unmute request has been handled, whether it came as a
\* message on the command topic or as a call of the assistant's functions,
\* the mute flag of the tracker equals the mute flag of the gate; a request
\* that leaves the tracker's flag as it is publishes nothing and calls no
\* callback.
C38_MuteFlagsAgree ==
    /\ [](listener.pc = "idle" => tracker_muted = is_muted)
    /\ [][(commands' = commands + 1 /\ tracker_muted' = tracker_muted) =>
             /\ published' = published
             /\ listener' = listener
             /\ is_muted' = is_muted]_vars

AttrPubs == SelectSeq(published, LAMBDA m : m.topic = "attributes")

\* C39: with the tracker connected and every publish succeeding, whenever no
\* publish is in flight the state topic carries the tracker's current state
\* and the attributes topic the icon of that same state, however the
\* set_state calls interleave at their publishes.
C39_PublishedMatchesState ==
    /\ [][(connected /\ mqtt_client /\ current_state' # current_state
             /\ published' # published)
          => Last(StatePubs').state = current_state']_vars
    /\ []((/\ connected /\ mqtt_client
           /\ inflight = EmptyBag
           /\ StatePubs # << >>
           /\ Last(StatePubs).state = current_state
           /\ Len(AttrPubs) = Len(StatePubs))
          => Last(AttrPubs).state = current_state)

\* C40: whenever the gate is awake and process_frame is not suspended inside
\* _wake_up, the keepalive the gate holds is counting down, so an awake gate
\* always has an expiry ahead.
C40_AwakeHasKeepalive ==
    (is_awake /\ gate.pc = "idle") =>
        (keepalive_task # 0 /\ ka[keepalive_task].status = "sleeping")

\* the gate was muted while _wake_up was suspended and the next chunk of the
\* frame woke it again: it is awake, with the keepalive of that chunk
C40_Witness ==
    /\ is_awake
    /\ is_muted
    /\ gate.pc = "idle"
    /\ ka[keepalive_task].status = "sleeping"
    /\ \E k \in KeepaliveSlots : ka[k].status = "cancel_pending"

====
